---- MODULE Spec2Model ----
(***************************************************************************)
(* Tile-grid coordinate algebra of src/position/tile_position.rs           *)
(* (TilePosition, SignedTilePosition and their conversions, arithmetic     *)
(* and distance queries) and the Crossing bisection search.                *)
(*                                                                         *)
(* Numbers.  f32 offsets and world coordinates are fixed-point integers    *)
(* counting units of 1/Scale; casts between integer and float types are    *)
(* exact at this resolution.  The index types u32 and i64 are modelled at  *)
(* IndexBits and 2*IndexBits bits, which keeps the relation "the signed    *)
(* type is twice as wide as the unsigned one".                             *)
(*                                                                         *)
(* Builds.  debug_assert! and arithmetic overflow checks exist only in a   *)
(* debug build; debugBuild is chosen once, in Init.                        *)
(***************************************************************************)
EXTENDS Integers, Sequences, FiniteSets, TLC

VARIABLES debugBuild, a, b, d, tile_size, op, res,
          seg, noisy, epsilon, pc, lo, hi, iter, sample, crossing

algVars == <<debugBuild, a, b, d, tile_size, op, res>>
searchVars == <<seg, noisy, epsilon, pc, lo, hi, iter, sample, crossing>>
vars == <<debugBuild, a, b, d, tile_size, op, res,
          seg, noisy, epsilon, pc, lo, hi, iter, sample, crossing>>

\* ------------------------------------------------------------------ bounds
IndexBits == 4
Scale == 10
TILE_POSITION_PRECISION == 8

SignedBits == 2 * IndexBits
U32_MAX == 2 ^ IndexBits - 1
I64_MAX == 2 ^ (SignedBits - 1) - 1
I64_MIN == 0 - 2 ^ (SignedBits - 1)
DistScale == 200 * Scale

\* ----------------------------------------------------------------- helpers
Abs(n) == IF n < 0 THEN 0 - n ELSE n

\* f64::round: to the nearest integer, halves away from zero; n / step.
RoundHalfAway(n, step) ==
    IF n >= 0 THEN (2 * n + step) \div (2 * step)
    ELSE 0 - ((2 * (0 - n) + step) \div (2 * step))

\* round(n, decimals) on a value counted in units of 1/units.
Round(n, decimals, units) ==
    LET factor == 10 ^ decimals
    IN  IF factor % units = 0
        THEN n
        ELSE LET step == units \div factor
             IN  RoundHalfAway(n, step) * step

\* floats_equal: both sides at the stored precision compare equal.
floats_equal(p, q) ==
    Round(p, TILE_POSITION_PRECISION, Scale) = Round(q, TILE_POSITION_PRECISION, Scale)

Panic == [kind |-> "panic"]

\* i64 addition / subtraction: a debug build panics on overflow, a release
\* build wraps in two's complement.
WrapI64(n) == ((n - I64_MIN) % (2 ^ SignedBits)) + I64_MIN
InI64(n) == I64_MIN <= n /\ n <= I64_MAX

\* `as u32` on an i64: keeps the low bits.
AsU32(n) == n % (2 ^ IndexBits)

\* ------------------------------------------------------------ constructors
TilePosition_new(x, y, rel_x, rel_y) ==
    [kind |-> "tp", x |-> x, y |-> y,
     rel_x |-> Round(rel_x, TILE_POSITION_PRECISION, Scale),
     rel_y |-> Round(rel_y, TILE_POSITION_PRECISION, Scale)]

SignedTilePosition_new(x, y, rel_x, rel_y) ==
    [kind |-> "stp", x |-> x, y |-> y,
     rel_x |-> Round(rel_x, TILE_POSITION_PRECISION, Scale),
     rel_y |-> Round(rel_y, TILE_POSITION_PRECISION, Scale)]

\* ------------------------------------------------------------- WorldCoords
WorldCoords_new(x, y, ts) == [x |-> x, y |-> y, tile_size |-> ts]

\* world = tile * tile_size + rel
from_tile_position(tp, ts) ==
    WorldCoords_new(tp.x * ts + tp.rel_x, tp.y * ts + tp.rel_y, ts)

\* tile = floor(world / tile_size), rel = world - tile * tile_size
to_signed_tile_position(wc) ==
    LET tx == wc.x \div wc.tile_size
        ty == wc.y \div wc.tile_size
    IN  SignedTilePosition_new(tx, ty,
                               wc.x - tx * wc.tile_size,
                               wc.y - ty * wc.tile_size)

RECURSIVE SqrtSearch(_, _, _)
SqrtSearch(n, low, high) ==
    IF low >= high THEN low
    ELSE LET mid == (low + high + 1) \div 2
         IN  IF mid * mid <= n THEN SqrtSearch(n, mid, high)
             ELSE SqrtSearch(n, low, mid - 1)

\* floor(sqrt(n))
Sqrt(n) == SqrtSearch(n, 0, 46340)

\* Euclidean distance of two world points, in units of 1/DistScale.
WorldCoords_distance(p, q) ==
    LET dx == p.x - q.x
        dy == p.y - q.y
        f  == DistScale \div Scale
    IN  Sqrt((dx * dx + dy * dy) * f * f)

\* ------------------------------------------------------------ TilePosition
to_world_coords(tp, ts) == from_tile_position(tp, ts)

\* the distance taken in tile units, the tile size left out
distance_global_tile_units(self, other, ts) ==
    WorldCoords_distance(to_world_coords(self, Scale), to_world_coords(other, Scale))

distance_global(self, other, ts) ==
    WorldCoords_distance(to_world_coords(self, ts), to_world_coords(other, ts))

axes(self) == <<self.x * Scale + self.rel_x, self.y * Scale + self.rel_y>>

delta_to(self, target) ==
    <<axes(target)[1] - axes(self)[1], axes(target)[2] - axes(self)[2]>>

distance_relative(self, other) ==
    LET dl == delta_to(self, other)
        f  == DistScale \div Scale
    IN  Sqrt((dl[1] * dl[1] + dl[2] * dl[2]) * f * f)

is_same_tile(self, other) == self.x = other.x /\ self.y = other.y

\* ------------------------------------------------------ SignedTilePosition
normalized(self, ts) ==
    LET dts == 2 * ts
    IN  IF debugBuild /\ ~(0 - dts < self.rel_x /\ self.rel_x < dts)
        THEN Panic
        ELSE IF debugBuild /\ ~(0 - dts < self.rel_y /\ self.rel_y < dts)
        THEN Panic
        ELSE to_signed_tile_position(
                 WorldCoords_new(self.x * Scale + self.rel_x,
                                 self.y * Scale + self.rel_y, ts))

\* From<TilePosition> for SignedTilePosition
SignedTilePosition_from(tp) ==
    [kind |-> "stp", x |-> tp.x, y |-> tp.y, rel_x |-> tp.rel_x, rel_y |-> tp.rel_y]

\* the narrowing with the index test alone
TilePosition_try_from_index_only(stp) ==
    IF stp.x >= 0 /\ stp.y >= 0
    THEN [kind |-> "ok",
          x |-> AsU32(stp.x), y |-> AsU32(stp.y),
          rel_x |-> stp.rel_x, rel_y |-> stp.rel_y]
    ELSE [kind |-> "err"]

\* TryFrom<SignedTilePosition> for TilePosition
TilePosition_try_from(stp) ==
    IF /\ stp.x >= 0
       /\ stp.x * Scale + stp.rel_x >= 0
       /\ stp.y >= 0
       /\ stp.y * Scale + stp.rel_y >= 0
    THEN [kind |-> "ok",
          x |-> AsU32(stp.x), y |-> AsU32(stp.y),
          rel_x |-> stp.rel_x, rel_y |-> stp.rel_y]
    ELSE [kind |-> "err"]

\* the subtraction carried out in u32, without widening
sub_unsigned(self, rhs) ==
    SignedTilePosition_new(AsU32(self.x - rhs.x), AsU32(self.y - rhs.y),
                           self.rel_x - rhs.rel_x, self.rel_y - rhs.rel_y)

\* ops::Sub<&TilePosition> for &TilePosition
sub(self, rhs) ==
    LET dx == self.x - rhs.x
        dy == self.y - rhs.y
    IN  IF ~InI64(dx) \/ ~InI64(dy)
        THEN IF debugBuild THEN Panic
             ELSE SignedTilePosition_new(WrapI64(dx), WrapI64(dy),
                                         self.rel_x - rhs.rel_x, self.rel_y - rhs.rel_y)
        ELSE SignedTilePosition_new(dx, dy,
                                    self.rel_x - rhs.rel_x, self.rel_y - rhs.rel_y)

\* ops::Add<&SignedTilePosition> for &TilePosition
add(self, rhs) ==
    LET dx == self.x + rhs.x
        dy == self.y + rhs.y
    IN  IF ~InI64(dx) \/ ~InI64(dy)
        THEN IF debugBuild THEN Panic
             ELSE SignedTilePosition_new(WrapI64(dx), WrapI64(dy),
                                         self.rel_x + rhs.rel_x, self.rel_y + rhs.rel_y)
        ELSE SignedTilePosition_new(dx, dy,
                                    self.rel_x + rhs.rel_x, self.rel_y + rhs.rel_y)

\* ops::Sub<TilePosition> for TilePosition, ops::Add<SignedTilePosition> for TilePosition
sub_owned(self, rhs) == sub(self, rhs)
add_owned(self, rhs) == add(self, rhs)

\* ------------------------------------------------------------------ inputs
None == [kind |-> "none"]

TP(x, y, rel_x, rel_y) == TilePosition_new(x, y, rel_x, rel_y)
STP(x, y, rel_x, rel_y) == SignedTilePosition_new(x, y, rel_x, rel_y)

\* offsets are written in units of 1/Scale: 5 is 0.5, 10 is 1.0
TilePositions ==
    { TP(2, 3, 0, 0), TP(1, 4, 0, 0), TP(1, 1, 5, 2), TP(1, 4, 10, 1),
      TP(1, 3, 0, 3), TP(4, 8, 1, 8), TP(0, 0, 0, 0), TP(3, 0, 5, 9),
      TP(0, 2, 9, 0) }

SignedTilePositions ==
    { STP(0, 0, -1, 0), STP(0, 0, 1, 0), STP(-1, 0, 15, 0), STP(0, -1, 0, 5),
      STP(1, -1, 0, 0), STP(0, -3, -5, 1), STP(3, 0, 5, 0), STP(2, 1, -5, 12),
      STP(0, 0, 45, 0), STP(1, 2, 0, -45),
      STP(U32_MAX, U32_MAX, 9, 9), STP(U32_MAX + 1, 0, 0, 0),
      STP(I64_MAX, 0, 0, 0), STP(0, I64_MIN, 0, 0) }

TileSizes == { Scale \div 2, Scale, 2 * Scale }

\* -------------------------------------------------------- Crossing search
MaxIter == 5
TDen == 2 ^ MaxIter

Segments ==
    { [from |-> f, to |-> t, limit |-> l, tile_size |-> Scale] :
        f \in {0, 95}, t \in {100, 180}, l \in {40, 50, 97, 100, 137, 200} }

Epsilons == {0, 1, 10}

SearchIdle ==
    /\ seg = None /\ noisy = FALSE /\ epsilon = 0 /\ pc = "idle"
    /\ lo = 0 /\ hi = 0 /\ iter = 0 /\ sample = None
    /\ crossing = [valid |-> None, invalid |-> None]

\* -------------------------------------------------------------------- Init
Init ==
    /\ debugBuild \in BOOLEAN
    /\ a \in TilePositions
    /\ b \in TilePositions
    /\ d \in SignedTilePositions
    /\ tile_size \in TileSizes
    /\ op = "none"
    /\ res = None
    /\ SearchIdle

DoSub ==
    /\ op' = "sub"
    /\ res' = sub(a, b)
    /\ UNCHANGED <<debugBuild, a, b, d, tile_size>>
    /\ UNCHANGED searchVars

DoAdd ==
    /\ op' = "add"
    /\ res' = add(a, d)
    /\ UNCHANGED <<debugBuild, a, b, d, tile_size>>
    /\ UNCHANGED searchVars

DoNormalized ==
    /\ op' = "normalized"
    /\ res' = normalized(d, tile_size)
    /\ UNCHANGED <<debugBuild, a, b, d, tile_size>>
    /\ UNCHANGED searchVars

DoFrom ==
    /\ op' = "from"
    /\ res' = SignedTilePosition_from(a)
    /\ UNCHANGED <<debugBuild, a, b, d, tile_size>>
    /\ UNCHANGED searchVars

DoTryFrom ==
    /\ op' = "try_from"
    /\ res' = TilePosition_try_from(d)
    /\ UNCHANGED <<debugBuild, a, b, d, tile_size>>
    /\ UNCHANGED searchVars

DoDistanceGlobal ==
    /\ op' = "distance_global"
    /\ res' = [kind |-> "num", v |-> distance_global(a, b, tile_size)]
    /\ UNCHANGED <<debugBuild, a, b, d, tile_size>>
    /\ UNCHANGED searchVars

DoDistanceRelative ==
    /\ op' = "distance_relative"
    /\ res' = [kind |-> "num", v |-> distance_relative(a, b)]
    /\ UNCHANGED <<debugBuild, a, b, d, tile_size>>
    /\ UNCHANGED searchVars

DoIsSameTile ==
    /\ op' = "is_same_tile"
    /\ res' = [kind |-> "bool", v |-> is_same_tile(a, b)]
    /\ UNCHANGED <<debugBuild, a, b, d, tile_size>>
    /\ UNCHANGED searchVars

\* b + (a - b)
DoAddBack ==
    /\ op = "sub"
    /\ res.kind = "stp"
    /\ op' = "sub_add"
    /\ res' = add(b, res)
    /\ UNCHANGED <<debugBuild, a, b, d, tile_size>>
    /\ UNCHANGED searchVars

\* (b + (a - b)).normalized(tile_size)
DoNormalizeSum ==
    /\ op = "sub_add"
    /\ res.kind = "stp"
    /\ op' = "inverse"
    /\ res' = normalized(res, tile_size)
    /\ UNCHANGED <<debugBuild, a, b, d, tile_size>>
    /\ UNCHANGED searchVars

\* TilePosition::try_from(SignedTilePosition::from(a))
DoNarrowBack ==
    /\ op = "from"
    /\ op' = "round_trip"
    /\ res' = TilePosition_try_from(res)
    /\ UNCHANGED <<debugBuild, a, b, d, tile_size>>
    /\ UNCHANGED searchVars

Next ==
    \/ DoSub
    \/ DoAdd
    \/ DoNormalized
    \/ DoFrom
    \/ DoTryFrom
    \/ DoDistanceGlobal
    \/ DoDistanceRelative
    \/ DoIsSameTile
    \/ DoAddBack
    \/ DoNormalizeSum
    \/ DoNarrowBack

Spec == Init /\ [][Next]_vars

\* ================================================================ Crossing
\* The search interpolates in world space along the segment seg.from..seg.to
\* (a horizontal segment, y = 0) over t in 0..TDen, which stands for [0, 1].
Some(tp) == [kind |-> "some", pos |-> tp]

WorldX(tp) == from_tile_position(tp, seg.tile_size).x

\* WorldCoords -> TilePosition: floor division, then the narrowing.
to_tile_position(wc) ==
    LET r == TilePosition_try_from(to_signed_tile_position(wc))
    IN  TP(r.x, r.y, r.rel_x, r.rel_y)

Interpolate(t) ==
    to_tile_position(
        WorldCoords_new(seg.from + ((seg.to - seg.from) * t) \div TDen, 0, seg.tile_size))

\* The caller's validity predicate: the valid region is closed at seg.limit.
IsValid(tp) == WorldX(tp) <= seg.limit

\* What one evaluation of the predicate can answer.
Verdicts(tp) == IF noisy THEN BOOLEAN ELSE {IsValid(tp)}

\* a midpoint that does not move off the lower end
Midpoint_low(l, h) == l

Midpoint(l, h) == (l + h) \div 2

\* bracket width in world units, times TDen
WidthTimesTDen(l, h) == (h - l) * Abs(seg.to - seg.from)

ShouldStop == WidthTimesTDen(lo, hi) <= epsilon * TDen \/ iter >= MaxIter

\* the sample replacing the wrong endpoint
Narrow_swapped(c, pos, verdict) ==
    IF verdict THEN [c EXCEPT !.invalid = Some(pos)]
    ELSE [c EXCEPT !.valid = Some(pos)]

\* The endpoint the sample replaces.
Narrow(c, pos, verdict) ==
    IF verdict THEN [c EXCEPT !.valid = Some(pos)]
    ELSE [c EXCEPT !.invalid = Some(pos)]

SearchInit ==
    /\ debugBuild = FALSE
    /\ a = TP(0, 0, 0, 0)
    /\ b = TP(0, 0, 0, 0)
    /\ d = STP(0, 0, 0, 0)
    /\ tile_size = Scale
    /\ op = "none"
    /\ res = None
    /\ seg \in Segments
    /\ noisy \in BOOLEAN
    /\ epsilon \in Epsilons
    /\ pc = "init"
    /\ lo = 0 /\ hi = 0 /\ iter = 0 /\ sample = None
    /\ crossing = [valid |-> None, invalid |-> None]

SearchBegin ==
    /\ pc = "init"
    /\ pc' = "bisect"
    /\ lo' = 0
    /\ hi' = TDen
    /\ crossing' = [valid |-> Some(Interpolate(0)), invalid |-> Some(Interpolate(TDen))]
    /\ UNCHANGED <<seg, noisy, epsilon, iter, sample>>
    /\ UNCHANGED algVars

SearchStep ==
    /\ pc = "bisect"
    /\ ~ShouldStop
    /\ LET mid == Midpoint(lo, hi)
           pos == Interpolate(mid)
       IN  \E verdict \in Verdicts(pos) :
             /\ lo' = IF verdict THEN mid ELSE lo
             /\ hi' = IF verdict THEN hi ELSE mid
             /\ crossing' = Narrow(crossing, pos, verdict)
             /\ sample' = [kind |-> "sample", t |-> mid, pos |-> pos, valid |-> verdict]
    /\ iter' = iter + 1
    /\ UNCHANGED <<seg, noisy, epsilon, pc>>
    /\ UNCHANGED algVars

SearchStop ==
    /\ pc = "bisect"
    /\ ShouldStop
    /\ pc' = "done"
    /\ UNCHANGED <<seg, noisy, epsilon, lo, hi, iter, sample, crossing>>
    /\ UNCHANGED algVars

SearchNext ==
    \/ SearchBegin
    \/ SearchStep
    \/ SearchStop

SearchSpec == SearchInit /\ [][SearchNext]_vars

\* The search is a synchronous loop: it keeps running until it returns.
SearchLiveSpec == SearchInit /\ [][SearchNext]_vars /\ WF_vars(SearchNext)

\* ================================================================== claims
\* effective coordinate (tile index + offset) is non-negative on both axes
EffectiveNonNegative(stp) ==
    /\ stp.x * Scale + stp.rel_x >= 0
    /\ stp.y * Scale + stp.rel_y >= 0

\* the offsets of p lie strictly inside (-2 * ts, 2 * ts)
InBand(p, ts) ==
    /\ 0 - 2 * ts < p.rel_x /\ p.rel_x < 2 * ts
    /\ 0 - 2 * ts < p.rel_y /\ p.rel_y < 2 * ts

\* the offsets of p lie in [0, ts)
IsNormal(p, ts) ==
    /\ 0 <= p.rel_x /\ p.rel_x < ts
    /\ 0 <= p.rel_y /\ p.rel_y < ts

\* C1 (as stated): the narrowing returns Ok exactly when the effective
\* coordinate is non-negative on both axes, and the off-grid error only when
\* it is negative on some axis.
C1_Original ==
    op = "try_from" => ((res.kind = "ok") <=> EffectiveNonNegative(d))

\* C1 (amended): the narrowing returns Ok exactly when, on both axes, the
\* tile index is non-negative and the effective coordinate is non-negative;
\* in every other case it returns the off-grid error.
C1_Amended ==
    op = "try_from" =>
        /\ res.kind \in {"ok", "err"}
        /\ (res.kind = "ok") <=> (d.x >= 0 /\ d.y >= 0 /\ EffectiveNonNegative(d))

C1_Witness ==
    /\ op = "try_from"
    /\ d = STP(0, 0, -1, 0)
    /\ res.kind = "err"

\* C2: a - b has the exact signed differences of the tile indices and the
\* direct differences of the offsets, with no renormalization.
C2_Sub ==
    op = "sub" =>
        /\ res.kind = "stp"
        /\ res.x = a.x - b.x
        /\ res.y = a.y - b.y
        /\ res.rel_x = a.rel_x - b.rel_x
        /\ res.rel_y = a.rel_y - b.rel_y
        /\ res = sub_owned(a, b)

C2_Witness ==
    /\ op = "sub"
    /\ a = TP(1, 1, 5, 2)
    /\ b = TP(1, 4, 10, 1)
    /\ res = STP(0, -3, -5, 1)

\* C3: a + d has the mathematical sums of the tile indices (no overflow, no
\* wraparound) and the direct sums of the offsets; the by-value form agrees.
C3_Claim ==
    op = "add" =>
        /\ res.kind = "stp"
        /\ res.x = a.x + d.x
        /\ res.y = a.y + d.y
        /\ res.rel_x = a.rel_x + d.rel_x
        /\ res.rel_y = a.rel_y + d.rel_y
        /\ res = add_owned(a, d)

\* C4: for a, b with offsets in [0, tile_size), (b + (a - b)).normalized(tile_size)
\* equals a: same tile indices, offsets equal within the tolerance.
C4_Claim ==
    (op = "inverse" /\ IsNormal(a, tile_size) /\ IsNormal(b, tile_size)) =>
        /\ res.kind = "stp"
        /\ res.x = a.x
        /\ res.y = a.y
        /\ floats_equal(res.rel_x, a.rel_x)
        /\ floats_equal(res.rel_y, a.rel_y)

\* C5: in every build, normalized fails loudly when an offset lies outside
\* (-2 * tile_size, 2 * tile_size); it never returns a position then.
C5_Claim ==
    (op = "normalized" /\ ~InBand(d, tile_size)) => res.kind = "panic"

\* C8: distance_global(a, b, s) is the Euclidean distance of the world points
\* tile * s + rel of a and b (here rounded down to 1/DistScale), it is
\* symmetric, and the documented pair is at 6.313 once rounded to 3 decimals.
C8_DistanceGlobal ==
    op = "distance_global" =>
        LET dx == (a.x * tile_size + a.rel_x) - (b.x * tile_size + b.rel_x)
            dy == (a.y * tile_size + a.rel_y) - (b.y * tile_size + b.rel_y)
            f  == DistScale \div Scale
            sq == (dx * dx + dy * dy) * f * f
        IN  /\ res.v >= 0
            /\ res.v * res.v <= sq
            /\ sq < (res.v + 1) * (res.v + 1)
            /\ res.v = distance_global(b, a, tile_size)
            /\ (a = TP(1, 3, 0, 3) /\ b = TP(4, 8, 1, 8) /\ tile_size = Scale)
                 => Round(res.v, 3, DistScale) * 1000 = 6313 * DistScale

C8_Witness ==
    /\ op = "distance_global"
    /\ a = TP(1, 3, 0, 3)
    /\ b = TP(4, 8, 1, 8)
    /\ tile_size = Scale
    /\ Round(res.v, 3, DistScale) * 1000 = 6313 * DistScale

\* C9: for p within the precondition, p.normalized(s) has offsets in [0, s)
\* and denotes the same world point: q.x * s + q.rel = p.x * s + p.rel.
C9_Claim ==
    (op = "normalized" /\ InBand(d, tile_size)) =>
        /\ res.kind = "stp"
        /\ IsNormal(res, tile_size)
        /\ res.x * tile_size + res.rel_x = d.x * tile_size + d.rel_x
        /\ res.y * tile_size + res.rel_y = d.y * tile_size + d.rel_y

\* C10: an Ok narrowing keeps the tile indices and offsets of its input, for
\* every signed index; widening a TilePosition and narrowing it back returns
\* the original position.
C10_Claim ==
    /\ (op = "try_from" /\ res.kind = "ok") =>
           /\ res.x = d.x /\ res.y = d.y
           /\ res.rel_x = d.rel_x /\ res.rel_y = d.rel_y
    /\ op = "round_trip" =>
           /\ res.kind = "ok"
           /\ res.x = a.x /\ res.y = a.y
           /\ res.rel_x = a.rel_x /\ res.rel_y = a.rel_y

\* the initial inputs bracket a transition of the predicate
Brackets == IsValid(Interpolate(0)) /\ ~IsValid(Interpolate(TDen))

\* C6: with a deterministic predicate and bracketing inputs, at every step
\* Crossing.valid satisfies the predicate and Crossing.invalid does not, and
\* a sample lying exactly on the transition becomes the valid endpoint.
C6_Bracket ==
    (pc \in {"bisect", "done"} /\ ~noisy /\ Brackets) =>
        /\ crossing.valid.kind = "some" /\ IsValid(crossing.valid.pos)
        /\ crossing.invalid.kind = "some" /\ ~IsValid(crossing.invalid.pos)
        /\ (sample.kind = "sample" /\ WorldX(sample.pos) = seg.limit) =>
               (sample.valid /\ lo = sample.t /\ crossing.valid = Some(sample.pos))

C6_Witness ==
    /\ pc = "bisect"
    /\ ~noisy
    /\ Brackets
    /\ sample.kind = "sample"
    /\ WorldX(sample.pos) = seg.limit
    /\ crossing.valid = Some(sample.pos)

\* C7: for every predicate, noisy ones included, the search eventually
\* stops; each iteration halves the bracket; when it has stopped the bracket
\* width is at most epsilon or the iteration cap was reached.
C7_Termination ==
    /\ <>(pc = "done")
    /\ [][(pc = "bisect" /\ iter' = iter + 1) => 2 * (hi' - lo') = hi - lo]_vars
    /\ [](pc = "done" =>
            (WidthTimesTDen(lo, hi) <= epsilon * TDen \/ iter = MaxIter))

C7_Witness ==
    /\ pc = "done"
    /\ noisy
    /\ iter = MaxIter
    /\ WidthTimesTDen(lo, hi) > epsilon * TDen

====
